---- MODULE Spec2Model ----
(***************************************************************************)
(* The resource clients of the OS2MO frontend (src/src/api/Employee.js and *)
(* the Validate client of src/unnamed/part_004), the event bus they        *)
(* publish on, and the validation rule adapters (src/unnamed/part_002,     *)
(* part_003).  A call of a client method is a promise chain: the request   *)
(* is outstanding until the backend answers, then each .then / .catch      *)
(* reaction of the chain runs as a step of its own.                        *)
(*                                                                         *)
(* Spec is the Employee client, SpecValidate the Validate client and       *)
(* SpecRules the rule adapters.  In Spec and SpecValidate a call is made   *)
(* once the calls before it have settled: the calls share nothing but the  *)
(* bus, on which every event stays tagged with the call that published it. *)
(* SpecReads is the reading methods of the Employee client in the same     *)
(* way.  SpecRace and SpecRaceFair are calls in flight together, their     *)
(* reactions sharing one FIFO job queue.  SpecPicker is the org-unit       *)
(* tree-picker component of part_004.                                      *)
(***************************************************************************)
EXTENDS Integers, Sequences, FiniteSets, TLC

VARIABLES calls, bus, rule, jobs, answered, picker

vars == <<calls, bus, rule, jobs, answered, picker>>

\* Number of client calls made in a run.
MaxCalls == 2

\* Number of things the user does to the tree-picker in a run.
MaxUserOps == 4

Calls == 1..MaxCalls

(***************************************************************************)
(* JavaScript values.  Every value is a record with a type tag, so that    *)
(* a string, an object holding that string, undefined and null are all     *)
(* different values.                                                       *)
(***************************************************************************)
Undefined == [t |-> "undefined"]

Null == [t |-> "null"]

True == [t |-> "boolean", b |-> TRUE]

False == [t |-> "boolean", b |-> FALSE]

Str(s) == [t |-> "string", s |-> s]

Obj(f) == [t |-> "object", f |-> f]

Arr(a) == [t |-> "array", a |-> a]

NoFields == [k \in {} |-> Undefined]

\* The TypeError a property read of undefined or null throws; like every
\* Error that is not an HTTP error it has no "response" property.
TypeError == Obj([name |-> Str("TypeError")])

\* o.k throws when o is undefined or null.
ReadThrows(o) == o.t \in {"undefined", "null"}

\* o.k for an o that is neither undefined nor null.
Get(o, k) ==
  IF o.t = "object" /\ k \in DOMAIN o.f THEN o.f[k] ELSE Undefined

\* a[i] (zero-based) for an array a.
Index(a, i) ==
  IF a.t = "array" /\ i + 1 \in DOMAIN a.a THEN a.a[i + 1] ELSE Undefined

\* !v
Falsy(v) ==
  \/ v.t \in {"undefined", "null"}
  \/ v.t = "string" /\ v.s = ""
  \/ v.t = "boolean" /\ ~v.b

\* Object.keys(o).length === 0 for an o that is neither undefined nor null.
NoKeys(o) ==
  IF o.t = "object" THEN DOMAIN o.f = {}
  ELSE IF o.t = "string" THEN o.s = ""
  ELSE IF o.t = "array" THEN o.a = <<>>
  ELSE TRUE

(***************************************************************************)
(* What a handler of a promise chain does: the events it publishes, in     *)
(* order, and the value it returns or the error it throws.                 *)
(***************************************************************************)
Emit(name, payload) == [name |-> name, payload |-> payload]

Return(v, emits) == [st |-> "fulfilled", v |-> v, emits |-> emits]

Throw(e, emits) == [st |-> "rejected", v |-> e, emits |-> emits]

(***************************************************************************)
(* Employee.js: the reactions of each method's promise chain.              *)
(***************************************************************************)
getAllThen(response) ==
  LET data == Get(response, "data")
  IN  IF ReadThrows(data) THEN Throw(TypeError, <<>>)
      ELSE Return(Get(data, "items"), <<>>)

\* get publishing the organisation's uuid instead of the organisation.
getThenUuid(response) ==
  LET data == Get(response, "data")
  IN  IF ReadThrows(data) \/ ReadThrows(Get(data, "org"))
      THEN Throw(TypeError, <<>>)
      ELSE Return(data, <<Emit("organisation-changed",
                               Get(Get(data, "org"), "uuid"))>>)

getThen(response) ==
  LET data == Get(response, "data")
  IN  IF ReadThrows(data) THEN Throw(TypeError, <<>>)
      ELSE Return(data, <<Emit("organisation-changed", Get(data, "org"))>>)

historyThen(response) == Return(Get(response, "data"), <<>>)

\* getDetail publishing a change event with the details it read.
getDetailThenPublishing(response) ==
  LET data == Get(response, "data")
  IN  Return(data, <<Emit("employee-changed", data)>>)

getDetailThen(response) == Return(Get(response, "data"), <<>>)

getDetailListThen(response) == Return(Get(response, "data"), <<>>)

\* createEntry returning the response instead of its body.
createEntryThenWhole(response) ==
  LET data == Get(response, "data")
  IN  Return(response, <<Emit("employee-changed", data)>>)

createEntryThen(response) ==
  LET data == Get(response, "data")
  IN  Return(data, <<Emit("employee-changed", data)>>)

createThen(response) == Return(Undefined, <<Emit("employee-create", response)>>)

leaveThen(response) == Return(Undefined, <<Emit("employee-leave", response)>>)

editThen(response) ==
  LET data == Get(response, "data")
  IN  Return(data, <<Emit("employee-changed", data)>>)

moveThen(response) == Return(Undefined, <<Emit("employee-move", response)>>)

\* terminate publishing its two events the other way round.
terminateThenSwapped(response) ==
  LET data == Get(response, "data")
  IN  Return(data, <<Emit("employee-terminate", data),
                     Emit("employee-changed", data)>>)

terminateThen(response) ==
  LET data == Get(response, "data")
  IN  Return(data, <<Emit("employee-changed", data),
                     Emit("employee-terminate", data)>>)

\* .catch(error => { console.log(error.response) })
logError(error) ==
  IF ReadThrows(error) THEN Throw(TypeError, <<>>)
  ELSE Return(Undefined, <<>>)

(***************************************************************************)
(* The Validate client: the two callbacks of its .then(result, err).       *)
(***************************************************************************)
validThen(result) == Return(True, <<>>)

\* createErrorPayload passing the whole response body on as the error key.
createErrorPayloadBody(err) ==
  LET response == Get(err, "response")
  IN  IF ReadThrows(err) \/ ReadThrows(response)
         \/ ReadThrows(Get(response, "data"))
      THEN Throw(TypeError, <<>>)
      ELSE Return(Obj([valid |-> False, data |-> Get(response, "data")]), <<>>)

\* createErrorPayload throwing on a body that has no error_key.
createErrorPayloadStrict(err) ==
  LET response == Get(err, "response")
  IN  IF ReadThrows(err) \/ ReadThrows(response)
         \/ ReadThrows(Get(response, "data"))
         \/ Get(Get(response, "data"), "error_key") = Undefined
      THEN Throw(TypeError, <<>>)
      ELSE Return(Obj([valid |-> False,
                       data |-> Get(Get(response, "data"), "error_key")]), <<>>)

\* err.response.data.error_key: each read throws on undefined or null.
createErrorPayload(err) ==
  LET response == Get(err, "response")
  IN  IF ReadThrows(err) \/ ReadThrows(response)
         \/ ReadThrows(Get(response, "data"))
      THEN Throw(TypeError, <<>>)
      ELSE Return(Obj([valid |-> False,
                       data |-> Get(Get(response, "data"), "error_key")]), <<>>)

(***************************************************************************)
(* The validation rule adapters.  validate returns true, throws, or        *)
(* returns the promise of the Validate client method it calls.             *)
(***************************************************************************)
RuleReturn(v) == [kind |-> "return", v |-> v, request |-> <<>>]

RuleThrow(e) == [kind |-> "throw", v |-> e, request |-> <<>>]

RuleAsk(fn, args) == [kind |-> "promise", v |-> Undefined, request |-> <<fn, args>>]

\* The existing-associations rule looking at the employee before the
\* validity.
validateExistingAssociationsEmployeeFirst(value, args) ==
  LET employee == Index(args, 0)
      unit == Index(args, 1)
      validity == Index(args, 2)
      associationUuid == Index(args, 3)
  IN  IF ReadThrows(employee) THEN RuleThrow(TypeError)
      ELSE IF NoKeys(employee) THEN RuleReturn(True)
      ELSE IF Falsy(employee) THEN RuleReturn(True)
      ELSE IF Falsy(validity) THEN RuleReturn(True)
      ELSE IF Falsy(Get(validity, "from")) THEN RuleReturn(True)
      ELSE RuleAsk("existingAssociations",
                   <<unit, employee, validity, associationUuid>>)

\* The || of the rule's condition evaluate left to right and stop at the
\* first that holds; Object.keys(employee) throws on undefined and null.
validateExistingAssociations(value, args) ==
  LET employee == Index(args, 0)
      unit == Index(args, 1)
      validity == Index(args, 2)
      associationUuid == Index(args, 3)
  IN  IF Falsy(validity) THEN RuleReturn(True)
      ELSE IF Falsy(Get(validity, "from")) THEN RuleReturn(True)
      ELSE IF ReadThrows(employee) THEN RuleThrow(TypeError)
      ELSE IF NoKeys(employee) THEN RuleReturn(True)
      ELSE IF Falsy(employee) THEN RuleReturn(True)
      ELSE RuleAsk("existingAssociations",
                   <<unit, employee, validity, associationUuid>>)

validateCandidateParentOrgUnit(value, args) ==
  LET unit == Index(args, 0)
      parent == Index(args, 1)
      validity == Index(args, 2)
  IN  IF Falsy(validity) THEN RuleReturn(True)
      ELSE IF Falsy(Get(validity, "from")) THEN RuleReturn(True)
      ELSE RuleAsk("candidateParentOrgUnit", <<unit, parent, validity>>)

getMessage(value, args, data) == data

(***************************************************************************)
(* The org-unit tree-picker component.  Objects handed to the component    *)
(* carry a reference, so that two objects describing the same unit are     *)
(* different values, as they are to the === of the reactive setter.        *)
(***************************************************************************)
Node(ref, uuid, name) ==
  [t |-> "object", f |-> [uuid |-> Str(uuid), name |-> Str(name)], ref |-> ref]

\* data()
pickerData == [selectedSuperUnit |-> Null, showTree |-> FALSE, orgName |-> Null]

\* The watcher of selectedSuperUnit.
watchSelectedSuperUnit(s, newVal) ==
  IF ReadThrows(newVal) THEN s
  ELSE [s EXCEPT !.orgName = Get(newVal, "name"),
                 !.validated = s.validated + 1,
                 !.blurred = s.blurred + 1,
                 !.emitted = Append(s.emitted, Emit("input", newVal)),
                 !.showTree = FALSE]

\* An assignment to selectedSuperUnit: the watcher runs when the value
\* assigned is not the value held.
setSelectedSuperUnit(s, newVal) ==
  IF newVal = s.selectedSuperUnit THEN s
  ELSE watchSelectedSuperUnit([s EXCEPT !.selectedSuperUnit = newVal], newVal)

\* mounted() forgetting the bound value.
mountedWithoutValue(s) == setSelectedSuperUnit(s, s.selectedSuperUnit)

\* this.selectedSuperUnit = this.value || this.selectedSuperUnit
mounted(s) ==
  setSelectedSuperUnit(
    s, IF Falsy(s.value) THEN s.selectedSuperUnit ELSE s.value)

\* toggleTree() only ever opening the tree.
toggleTreeOpen(s) == [s EXCEPT !.showTree = TRUE]

toggleTree(s) == [s EXCEPT !.showTree = ~s.showTree]

(***************************************************************************)
(* The chain of reactions each method attaches to its request, in order.   *)
(* A "then" reaction runs its handler on a fulfilled promise and lets a    *)
(* rejection through; a "catch" reaction does the opposite; a "then2"      *)
(* reaction, .then(f, g), runs f on a fulfilled promise and g on a         *)
(* rejected one.                                                           *)
(***************************************************************************)
Then(fn) == [kind |-> "then", fn |-> fn, rej |-> "none"]

Catch(fn) == [kind |-> "catch", fn |-> "none", rej |-> fn]

Then2(fn, rej) == [kind |-> "then2", fn |-> fn, rej |-> rej]

cpr == <<Then2("valid", "createErrorPayload")>>

orgUnit == <<Then2("valid", "createErrorPayload")>>

ValidateOps == {"cpr", "orgUnit"}

getAll == <<Then("getAll"), Catch("logError")>>

get == <<Then("get"), Catch("logError")>>

history == <<Then("history")>>

getDetail == <<Then("getDetail"), Catch("logError")>>

\* The wrappers return this.getDetail(uuid, <detail>, validity).
getEngagementDetails == getDetail

getRoleDetails == getDetail

getItDetails == getDetail

getAssociationDetails == getDetail

getLeaveDetails == getDetail

DetailWrappers ==
  {"getEngagementDetails", "getRoleDetails", "getItDetails",
   "getAssociationDetails", "getLeaveDetails"}

\* The detail a wrapper passes to getDetail.
DetailOf(op) ==
  CASE op = "getEngagementDetails" -> "engagement"
    [] op = "getRoleDetails" -> "role"
    [] op = "getItDetails" -> "it"
    [] op = "getAssociationDetails" -> "association"
    [] op = "getLeaveDetails" -> "leave"

getDetailList == <<Then("getDetailList"), Catch("logError")>>

\* createEntry attaching its .catch before its .then.
createEntryCatchFirst == <<Catch("logError"), Then("createEntry")>>

createEntry == <<Then("createEntry"), Catch("logError")>>

create == createEntry \o <<Then("create")>>

leave == createEntry \o <<Then("leave")>>

edit == <<Then("edit"), Catch("logError")>>

move == edit \o <<Then("move")>>

\* terminate written as a wrapper, like move: the change event in the
\* chain it wraps and its second event in a .then of its own.
terminateWrapped == edit \o <<Then("move")>>

terminate == <<Then("terminate"), Catch("logError")>>

EmployeeOps ==
  {"getAll", "get", "history", "getDetail", "getDetailList", "createEntry",
   "create", "leave", "edit", "move", "terminate"}

Chain(op) ==
  CASE op = "getAll" -> getAll
    [] op = "get" -> get
    [] op = "history" -> history
    [] op = "getDetail" -> getDetail
    [] op = "getEngagementDetails" -> getEngagementDetails
    [] op = "getRoleDetails" -> getRoleDetails
    [] op = "getItDetails" -> getItDetails
    [] op = "getAssociationDetails" -> getAssociationDetails
    [] op = "getLeaveDetails" -> getLeaveDetails
    [] op = "getDetailList" -> getDetailList
    [] op = "createEntry" -> createEntry
    [] op = "create" -> create
    [] op = "leave" -> leave
    [] op = "edit" -> edit
    [] op = "move" -> move
    [] op = "terminate" -> terminate
    [] op = "cpr" -> cpr
    [] op = "orgUnit" -> orgUnit

Handle(fn, arg) ==
  CASE fn = "getAll" -> getAllThen(arg)
    [] fn = "get" -> getThen(arg)
    [] fn = "history" -> historyThen(arg)
    [] fn = "getDetail" -> getDetailThen(arg)
    [] fn = "getDetailList" -> getDetailListThen(arg)
    [] fn = "createEntry" -> createEntryThen(arg)
    [] fn = "create" -> createThen(arg)
    [] fn = "leave" -> leaveThen(arg)
    [] fn = "edit" -> editThen(arg)
    [] fn = "move" -> moveThen(arg)
    [] fn = "terminate" -> terminateThen(arg)
    [] fn = "logError" -> logError(arg)
    [] fn = "valid" -> validThen(arg)
    [] fn = "createErrorPayload" -> createErrorPayload(arg)

\* A mutating method publishing its change event as soon as it is called.
EmittedOnCallEager(op) ==
  IF op \in {"createEntry", "edit", "terminate"}
  THEN <<Emit("employee-changed", Undefined)>>
  ELSE <<>>

\* What a method publishes in its own body, before its request is answered.
EmittedOnCall(op) == <<>>

\* The request an Employee method sends.
Request(op, uuid) ==
  CASE op = "getAll" ->
         [method |-> "GET", url |-> <<"/o/", uuid, "/e/">>, data |-> Undefined]
    [] op = "get" ->
         [method |-> "GET", url |-> <<"/e/", uuid, "/">>, data |-> Undefined]
    [] op = "history" ->
         [method |-> "GET", url |-> <<"/e/", uuid, "/history/">>,
          data |-> Undefined]
    [] op = "getDetail" ->
         [method |-> "GET", url |-> <<"/e/", uuid, "/details/">>,
          data |-> Undefined]
    [] op \in DetailWrappers ->
         [method |-> "GET",
          url |-> <<"/e/", uuid, "/details/", DetailOf(op), "?validity=present">>,
          data |-> Undefined]
    [] op = "getDetailList" ->
         [method |-> "GET", url |-> <<"e/", uuid, "/details/">>,
          data |-> Undefined]
    [] op \in {"createEntry", "create", "leave"} ->
         [method |-> "POST", url |-> <<"/e/", uuid, "/create">>,
          data |-> Obj(NoFields)]
    [] op \in {"edit", "move"} ->
         [method |-> "POST", url |-> <<"/e/", uuid, "/edit">>,
          data |-> Obj(NoFields)]
    [] op = "terminate" ->
         [method |-> "POST", url |-> <<"/e/", uuid, "/terminate">>,
          data |-> Obj(NoFields)]

\* The request Validate.cpr(cprNo, org) sends.
cprRequest(cprNo, org) ==
  [method |-> "POST", url |-> <<"/service/validate", "/cpr/">>,
   data |-> Obj([cpr_no |-> cprNo, org |-> Obj([uuid |-> Index(org, 0)])])]

\* The request Validate.orgUnit(unit, validity) sends.
orgUnitRequest(unit, validity) ==
  [method |-> "POST", url |-> <<"/service/validate", "/org-unit/">>,
   data |-> Obj([org_unit |-> Obj([uuid |-> unit]), validity |-> validity])]

(***************************************************************************)
(* The backend's answers.                                                  *)
(***************************************************************************)
Uuids == {"uuid-1"}

Bodies ==
  {Obj([uuid |-> Str("uuid-1")]),
   Obj([org |-> Obj([uuid |-> Str("org-1")]), name |-> Str("X")]),
   Obj([items |-> Arr(<<Obj([uuid |-> Str("uuid-1")])>>)]),
   Null}

\* A rejected request: an HTTP error carrying the response, or an error
\* with no response at all (the network failed).
HttpErrors ==
  {Obj([response |-> Obj([status |-> Str("4xx"),
                          data |-> Obj([error_key |-> Str("E_NOT_FOUND")])])]),
   Obj([message |-> Str("Network Error")])}

\* The rejections of a Validate request: a non-2xx response whose body
\* carries an error key, one whose body is another object, one whose body is
\* not JSON, one whose body is null, and a failure with no response.
ValidateErrors ==
  {Obj([response |-> Obj([data |-> Obj([error_key |-> Str("V_CPR_NOT_VALID")])])]),
   Obj([response |-> Obj([data |-> Obj([error_key |-> Str("V_DATE_OUTSIDE_ORG_UNIT_RANGE")])])]),
   Obj([response |-> Obj([data |-> Obj([message |-> Str("Internal Server Error")])])]),
   Obj([response |-> Obj([data |-> Str("<html>Bad Gateway</html>")])]),
   Obj([response |-> Obj([data |-> Null])]),
   Obj([message |-> Str("Network Error")])}

CprNumbers == {Str("0101501234"), Str("")}

Orgs == {Arr(<<Str("org-1")>>), Arr(<<>>)}

Units == {Str("unit-1"), Undefined}

\* The validities Validate.orgUnit is called with.
RequestValidities ==
  {Undefined, Obj([from |-> Str("2024-01-01"), to |-> Null])}

\* The arguments the form hands to a validation rule: each may be missing.
Validities ==
  {Undefined, Null, Obj(NoFields), Obj([from |-> Null]), Obj([from |-> Str("")]),
   Obj([to |-> Str("2025-01-01")]), Obj([from |-> Str("2024-01-01")]),
   Obj([from |-> Str("2024-01-01"), to |-> Str("2025-01-01")])}

Employees == {Undefined, Null, Obj(NoFields), Obj([uuid |-> Str("uuid-1")])}

RuleUnits == {Undefined, Null, Obj(NoFields), Obj([uuid |-> Str("unit-1")])}

AssociationUuids == {Undefined, Str("assoc-1")}

RuleValues == {Undefined, Str("unit-1")}

(***************************************************************************)
(* State.  calls[c] is one call of a client method: the method, where the  *)
(* chain stands, the state of the promise the next reaction will see, and  *)
(* how the request was answered.  bus is the sequence of events published  *)
(* on the event bus, each tagged with the call that published it.          *)
(***************************************************************************)
Idle ==
  [op |-> "none", pc |-> "idle", stage |-> 0,
   p |-> [st |-> "pending", v |-> Undefined],
   http |-> [st |-> "none", v |-> Undefined],
   req |-> [method |-> "none", url |-> <<>>, data |-> Undefined]]

\* rule is the last run of a validation rule: its arguments and outcome.
NoRule ==
  [adapter |-> "none", value |-> Undefined, args |-> Arr(<<>>),
   out |-> RuleReturn(Undefined), message |-> Undefined]

\* picker is the tree-picker: its prop value, its data, what it has emitted,
\* how often it has validated and blurred its input, and the log of what
\* was done to it, each entry with the data it found.
NoPicker ==
  [phase |-> "none", value |-> Undefined,
   selectedSuperUnit |-> Undefined, showTree |-> FALSE, orgName |-> Undefined,
   emitted |-> <<>>, validated |-> 0, blurred |-> 0, log |-> <<>>]

\* jobs is the queue of reactions ready to run, each named by its call, and
\* answered the calls in the order their requests were answered.
Init ==
  /\ calls = [c \in Calls |-> Idle]
  /\ bus = <<>>
  /\ rule = NoRule
  /\ jobs = <<>>
  /\ answered = <<>>
  /\ picker = NoPicker

Tagged(emits, c) ==
  [i \in 1..Len(emits) |->
     [name |-> emits[i].name, payload |-> emits[i].payload, call |-> c]]

\* A component calls a method: the request goes out.  Calls are numbered in
\* the order they are made.
Call(c, op, req) ==
  /\ calls[c].pc = "idle"
  /\ \A d \in Calls : d < c => calls[d].pc # "idle"
  /\ calls' = [calls EXCEPT ![c].op = op, ![c].pc = "pending",
                            ![c].req = req]
  /\ bus' = bus \o Tagged(EmittedOnCall(op), c)
  /\ UNCHANGED <<rule, jobs, answered, picker>>

\* The backend answers 2xx with a body: the request's promise is fulfilled
\* with the response, and the first reaction of the chain is queued.
RespondOk(c, body) ==
  /\ calls[c].pc = "pending"
  /\ calls' = [calls EXCEPT
                 ![c].pc = "running", ![c].stage = 1,
                 ![c].p = [st |-> "fulfilled", v |-> Obj([data |-> body])],
                 ![c].http = [st |-> "ok", v |-> body]]
  /\ jobs' = Append(jobs, c)
  /\ answered' = Append(answered, c)
  /\ UNCHANGED <<bus, rule, picker>>

\* The request fails: its promise is rejected with the error.
RespondFail(c, error) ==
  /\ calls[c].pc = "pending"
  /\ calls' = [calls EXCEPT
                 ![c].pc = "running", ![c].stage = 1,
                 ![c].p = [st |-> "rejected", v |-> error],
                 ![c].http = [st |-> "failed", v |-> error]]
  /\ jobs' = Append(jobs, c)
  /\ answered' = Append(answered, c)
  /\ UNCHANGED <<bus, rule, picker>>

\* The outcome of the reaction r on a promise p.
React(r, p) ==
  IF r.kind \in {"then", "then2"} /\ p.st = "fulfilled" THEN Handle(r.fn, p.v)
  ELSE IF r.kind \in {"catch", "then2"} /\ p.st = "rejected"
  THEN Handle(r.rej, p.v)
  ELSE [st |-> p.st, v |-> p.v, emits |-> <<>>]

\* The reaction at the head of the queue runs; the reaction that follows it
\* in its chain joins the queue at the back.
Step(c) ==
  /\ calls[c].pc = "running"
  /\ jobs # <<>> /\ Head(jobs) = c
  /\ LET chain == Chain(calls[c].op)
         n == calls[c].stage
         out == React(chain[n], calls[c].p)
     IN  /\ calls' = [calls EXCEPT
                        ![c].p = [st |-> out.st, v |-> out.v],
                        ![c].stage = n + 1,
                        ![c].pc = IF n = Len(chain) THEN "settled"
                                  ELSE "running"]
         /\ bus' = bus \o Tagged(out.emits, c)
         /\ jobs' = Tail(jobs) \o (IF n = Len(chain) THEN <<>> ELSE <<c>>)
  /\ UNCHANGED <<rule, answered, picker>>

\* No call is in flight: every call made so far has settled.
Quiet == \A c \in Calls : calls[c].pc \in {"idle", "settled"}

\* The Employee client, one call after another on the shared bus.
Next ==
  \/ \E c \in Calls, op \in EmployeeOps, uuid \in Uuids :
       Quiet /\ Call(c, op, Request(op, uuid))
  \/ \E c \in Calls, body \in Bodies : RespondOk(c, body)
  \/ \E c \in Calls, error \in HttpErrors : RespondFail(c, error)
  \/ \E c \in Calls : Step(c)

Spec == Init /\ [][Next]_vars

\* The Validate client, one call after another.
NextValidate ==
  \/ \E c \in Calls, cprNo \in CprNumbers, org \in Orgs :
       Quiet /\ Call(c, "cpr", cprRequest(cprNo, org))
  \/ \E c \in Calls, unit \in Units, validity \in RequestValidities :
       Quiet /\ Call(c, "orgUnit", orgUnitRequest(unit, validity))
  \/ \E c \in Calls : RespondOk(c, Obj(NoFields))
  \/ \E c \in Calls, error \in ValidateErrors : RespondFail(c, error)
  \/ \E c \in Calls : Step(c)

SpecValidate == Init /\ [][NextValidate]_vars

\* The form validation runs the existing-associations rule on a field.
RunExistingAssociations(value, args) ==
  /\ rule' = [adapter |-> "existingAssociations", value |-> value,
              args |-> args, out |-> validateExistingAssociations(value, args),
              message |-> Undefined]
  /\ UNCHANGED <<calls, bus, jobs, answered, picker>>

\* The form validation runs the candidate-parent-org-unit rule on a field.
RunCandidateParentOrgUnit(value, args) ==
  /\ rule' = [adapter |-> "candidateParentOrgUnit", value |-> value,
              args |-> args, out |-> validateCandidateParentOrgUnit(value, args),
              message |-> Undefined]
  /\ UNCHANGED <<calls, bus, jobs, answered, picker>>

\* The server found a violation: the form asks the rule for its message.
AskMessage(data) ==
  /\ rule.out.kind = "promise"
  /\ rule.message = Undefined
  /\ rule' = [rule EXCEPT !.message = getMessage(rule.value, rule.args, data)]
  /\ UNCHANGED <<calls, bus, jobs, answered, picker>>

NextRules ==
  \/ \E value \in RuleValues, employee \in Employees, unit \in RuleUnits,
        validity \in Validities, associationUuid \in AssociationUuids :
       RunExistingAssociations(
         value, Arr(<<employee, unit, validity, associationUuid>>))
  \/ \E value \in RuleValues, unit \in RuleUnits, parent \in RuleUnits,
        validity \in Validities :
       RunCandidateParentOrgUnit(value, Arr(<<unit, parent, validity>>))
  \/ \E key \in {Str("V_MORE_THAN_ONE_ASSOCIATION"), Str("V_CHOSEN_PARENT_IS_SELF")} :
       AskMessage(key)

SpecRules == Init /\ [][NextRules]_vars

PickerValues == {Undefined, Null, Node("value", "unit-1", "Unit 1")}

\* The nodes the tree view hands over when the user selects one.
TreeNodes == {Node("tree-1", "unit-1", "Unit 1"), Node("tree-2", "unit-2", "Unit 2")}

Snapshot(s) ==
  [selectedSuperUnit |-> s.selectedSuperUnit, showTree |-> s.showTree,
   orgName |-> s.orgName, emitted |-> s.emitted, validated |-> s.validated,
   blurred |-> s.blurred]

Logged(s, op, arg) ==
  Append(s.log, [op |-> op, arg |-> arg, before |-> Snapshot(s)])

\* A form creates the component with a value (or none) bound to it.
Create(value) ==
  /\ picker.phase = "none"
  /\ picker' = [picker EXCEPT
                  !.phase = "created", !.value = value,
                  !.selectedSuperUnit = pickerData.selectedSuperUnit,
                  !.showTree = pickerData.showTree,
                  !.orgName = pickerData.orgName]
  /\ UNCHANGED <<calls, bus, rule, jobs, answered>>

\* The component is mounted.
Mounted ==
  /\ picker.phase = "created"
  /\ picker' = [mounted(picker) EXCEPT
                  !.phase = "mounted",
                  !.log = Logged(picker, "mounted", picker.value)]
  /\ UNCHANGED <<calls, bus, rule, jobs, answered>>

Usable == picker.phase = "mounted" /\ Len(picker.log) <= MaxUserOps

\* The user clicks the input.
ToggleTree ==
  /\ Usable
  /\ picker' = [toggleTree(picker) EXCEPT
                  !.log = Logged(picker, "toggleTree", Undefined)]
  /\ UNCHANGED <<calls, bus, rule, jobs, answered>>

\* The user selects a node in the tree, which is shown: the tree view's
\* input event assigns the node to selectedSuperUnit.
SelectNode(node) ==
  /\ Usable
  /\ picker.showTree
  /\ picker' = [setSelectedSuperUnit(picker, node) EXCEPT
                  !.log = Logged(picker, "select", node)]
  /\ UNCHANGED <<calls, bus, rule, jobs, answered>>

\* The user types in the input, which is bound to orgName.
TypeName(text) ==
  /\ Usable
  /\ picker' = [picker EXCEPT !.orgName = text,
                              !.log = Logged(picker, "type", text)]
  /\ UNCHANGED <<calls, bus, rule, jobs, answered>>

NextPicker ==
  \/ \E value \in PickerValues : Create(value)
  \/ Mounted
  \/ ToggleTree
  \/ \E node \in TreeNodes : SelectNode(node)
  \/ \E text \in {Str("Uni")} : TypeName(text)

SpecPicker == Init /\ [][NextPicker]_vars

(***************************************************************************)
(* Properties of the Employee client.                                      *)
(***************************************************************************)
Mutating == {"createEntry", "create", "leave", "edit", "move", "terminate"}

SpecificEvents ==
  {"employee-create", "employee-leave", "employee-move", "employee-terminate"}

Settled(c) == calls[c].pc = "settled"

Succeeded(c) == calls[c].http.st = "ok"

Failed(c) == calls[c].http.st = "failed"

\* The response body of a call that succeeded.
Body(c) == calls[c].http.v

\* The events call c has published, in order.
EventsOf(c) == SelectSeq(bus, LAMBDA e : e.call = c)

NamesOf(c) == [i \in DOMAIN EventsOf(c) |-> EventsOf(c)[i].name]

Count(c, name) ==
  Cardinality({i \in DOMAIN EventsOf(c) : EventsOf(c)[i].name = name})

\* C1: a mutating call whose request succeeded has published exactly one
\* 'employee-changed' event once it has settled, never more than one before,
\* and each operation-specific event of the call comes after it.
C1_OneGenericEventFirst ==
  \A c \in Calls :
    calls[c].op \in Mutating /\ Succeeded(c) =>
      /\ Count(c, "employee-changed") <= 1
      /\ Settled(c) => Count(c, "employee-changed") = 1
      /\ \A j \in DOMAIN EventsOf(c) :
           EventsOf(c)[j].name \in SpecificEvents =>
             \E i \in 1..(j - 1) : EventsOf(c)[i].name = "employee-changed"

\* A successful create has settled after publishing both of its events.
C1_Witness ==
  \E c \in Calls :
    /\ calls[c].op = "create" /\ Succeeded(c) /\ Settled(c)
    /\ NamesOf(c) = <<"employee-changed", "employee-create">>

\* C2: a mutating call, or a get, whose request failed publishes no event.
C2_NoEventOnFailure ==
  \A c \in Calls :
    calls[c].op \in Mutating \cup {"get"} /\ Failed(c) => EventsOf(c) = <<>>

\* C3: a call whose request failed settles fulfilled with undefined, never
\* rejected.
C3_NeverRejects ==
  \A c \in Calls :
    Failed(c) /\ Settled(c) =>
      calls[c].p = [st |-> "fulfilled", v |-> Undefined]

\* The body of call c holds an organisation object with a uuid.
HasOrg(c) ==
  /\ Body(c).t = "object"
  /\ Get(Body(c), "org").t = "object"
  /\ Get(Get(Body(c), "org"), "uuid").t = "string"

\* C4 as stated: a successful get of a body holding org = {uuid: U} publishes
\* exactly one 'organisation-changed' event whose payload is U, and resolves
\* to the body.
C4_PayloadIsOrgUuid ==
  \A c \in Calls :
    calls[c].op = "get" /\ Succeeded(c) /\ Settled(c) /\ HasOrg(c) =>
      /\ EventsOf(c) =
           <<[name |-> "organisation-changed",
              payload |-> Get(Get(Body(c), "org"), "uuid"), call |-> c]>>
      /\ calls[c].p = [st |-> "fulfilled", v |-> Body(c)]

\* C4 amended: the payload of the one 'organisation-changed' event is the
\* organisation object {uuid: U} of the body, and the call resolves to the
\* body.
C4_PayloadIsOrg ==
  \A c \in Calls :
    calls[c].op = "get" /\ Succeeded(c) /\ Settled(c) /\ HasOrg(c) =>
      /\ EventsOf(c) =
           <<[name |-> "organisation-changed",
              payload |-> Get(Body(c), "org"), call |-> c]>>
      /\ calls[c].p = [st |-> "fulfilled", v |-> Body(c)]

\* The scenario of the specification: get against a backend returning
\* {org: {uuid: 'org-1'}, name: 'X'} has settled.
C4_Witness ==
  \E c \in Calls :
    /\ calls[c].op = "get" /\ Succeeded(c) /\ Settled(c)
    /\ Body(c) = Obj([org |-> Obj([uuid |-> Str("org-1")]), name |-> Str("X")])

\* C5: a successful terminate publishes 'employee-changed' and then
\* 'employee-terminate' and resolves to the body; every event of a successful
\* create, leave, move or terminate carries the response body.
C5_PayloadIsBody ==
  \A c \in Calls :
    /\ calls[c].op = "terminate" /\ Succeeded(c) /\ Settled(c) =>
         /\ NamesOf(c) = <<"employee-changed", "employee-terminate">>
         /\ calls[c].p = [st |-> "fulfilled", v |-> Body(c)]
    /\ calls[c].op \in {"create", "leave", "move", "terminate"} /\ Succeeded(c)
         => \A i \in DOMAIN EventsOf(c) : EventsOf(c)[i].payload = Body(c)

\* A successful terminate and a successful move or leave have published.
C5_Witness ==
  \E c, d \in Calls :
    /\ calls[c].op = "terminate" /\ Succeeded(c) /\ Settled(c)
    /\ Len(EventsOf(c)) = 2
    /\ calls[d].op \in {"create", "leave", "move"} /\ Succeeded(d) /\ Settled(d)
    /\ Len(EventsOf(d)) = 2

\* C6: every call that succeeded with an object for a body resolves to that
\* body (getAll: to the body's items).
C6_ResolvesToBody ==
  \A c \in Calls :
    Succeeded(c) /\ Settled(c) /\ Body(c).t = "object" =>
      calls[c].p =
        [st |-> "fulfilled",
         v |-> IF calls[c].op = "getAll" THEN Get(Body(c), "items")
               ELSE Body(c)]

\* C7: no event of a call is on the bus while the call's request is
\* outstanding.
C7_EventsAfterResponse ==
  \A i \in DOMAIN bus : calls[bus[i].call].pc \notin {"idle", "pending"}

\* A call has published in the reaction that follows its response.
C7_Witness ==
  \E c \in Calls :
    /\ calls[c].pc = "running" /\ calls[c].stage = 2
    /\ EventsOf(c) # <<>>

(***************************************************************************)
(* Properties of the Validate client.                                      *)
(***************************************************************************)
\* The error of a failed call carries a response with a body that is
\* neither undefined nor null.
HasErrorBody(c) ==
  /\ ~ReadThrows(Get(calls[c].http.v, "response"))
  /\ ~ReadThrows(Get(Get(calls[c].http.v, "response"), "data"))

ErrorBody(c) == Get(Get(calls[c].http.v, "response"), "data")

HasErrorKey(c) ==
  HasErrorBody(c) /\ Get(ErrorBody(c), "error_key").t = "string"

\* C8: cpr and orgUnit resolve to true when the backend answers 2xx and to
\* {valid: false, data: K} when it answers non-2xx with error key K in the
\* body; the promise is fulfilled in both cases.
C8_ValidationResult ==
  \A c \in Calls :
    calls[c].op \in ValidateOps /\ Settled(c) =>
      /\ Succeeded(c) => calls[c].p = [st |-> "fulfilled", v |-> True]
      /\ Failed(c) /\ HasErrorKey(c) =>
           calls[c].p =
             [st |-> "fulfilled",
              v |-> Obj([valid |-> False,
                         data |-> Get(ErrorBody(c), "error_key")])]

\* One validation has resolved to true and another to an error payload.
C8_Witness ==
  \E c, d \in Calls :
    /\ calls[c].op \in ValidateOps /\ Settled(c) /\ Succeeded(c)
    /\ calls[d].op \in ValidateOps /\ Settled(d) /\ Failed(d)
    /\ HasErrorKey(d)

\* C9 as stated: a validation rejected with a response whose body lacks the
\* error key ends with its promise rejected.
C9_MissingKeyRejects ==
  \A c \in Calls :
    /\ calls[c].op \in ValidateOps /\ Settled(c) /\ Failed(c)
    /\ ~ReadThrows(Get(calls[c].http.v, "response"))
    /\ ~HasErrorKey(c)
    => calls[c].p.st = "rejected"

\* C9 amended: the promise of a failed validation is rejected, with the
\* TypeError createErrorPayload throws, exactly when the error carries no
\* response or the response body is undefined or null; with any other body
\* that lacks the error key it resolves to {valid: false, data: undefined}.
C9_RejectsOnlyWithoutBody ==
  \A c \in Calls :
    calls[c].op \in ValidateOps /\ Settled(c) /\ Failed(c) =>
      /\ ~HasErrorBody(c) =>
           calls[c].p = [st |-> "rejected", v |-> TypeError]
      /\ HasErrorBody(c) /\ ~HasErrorKey(c) =>
           calls[c].p =
             [st |-> "fulfilled",
              v |-> Obj([valid |-> False, data |-> Undefined])]

\* One failed validation threw in createErrorPayload and another, whose
\* response body is an object without the key, resolved.
C9_Witness ==
  \E c, d \in Calls :
    /\ calls[c].op \in ValidateOps /\ Settled(c) /\ Failed(c)
    /\ ~HasErrorBody(c) /\ calls[c].p.st = "rejected"
    /\ calls[d].op \in ValidateOps /\ Settled(d) /\ Failed(d)
    /\ ErrorBody(d).t = "object" /\ ~HasErrorKey(d)
    /\ calls[d].p.st = "fulfilled"

(***************************************************************************)
(* Properties of the validation rule adapters.                             *)
(***************************************************************************)
\* The validity a rule was run with (the third of its arguments).
RuleValidity == Index(rule.args, 2)

NoFrom == Falsy(RuleValidity) \/ Falsy(Get(RuleValidity, "from"))

\* C10: a rule run with a validity that is absent or has no 'from' returns
\* true, whatever its other arguments, and sends nothing to the Validate
\* client.
C10_NoFromReturnsTrue ==
  rule.adapter # "none" /\ NoFrom => rule.out = RuleReturn(True)

\* The existing-associations rule has run with no validity and a null
\* employee.
C10_Witness ==
  /\ rule.adapter = "existingAssociations"
  /\ NoFrom
  /\ Index(rule.args, 0) = Null
  /\ rule.out.kind = "return"

\* The employee a rule was run with (existing-associations: the first of its
\* arguments) and the org unit (existing-associations: the second,
\* candidate-parent-org-unit: the first).
RuleEmployee == Index(rule.args, 0)

RuleOrgUnit ==
  IF rule.adapter = "existingAssociations" THEN Index(rule.args, 1)
  ELSE Index(rule.args, 0)

\* null, undefined or an object with no keys.
Absent(v) == ReadThrows(v) \/ v = Obj(NoFields)

\* C11: a rule run with an absent employee or an absent org unit returns
\* true, without throwing and without calling the Validate client, also when
\* the validity has a 'from'.
C11_AbsentContextReturnsTrue ==
  /\ rule.adapter = "existingAssociations" /\ Absent(RuleEmployee)
       => rule.out = RuleReturn(True)
  /\ rule.adapter # "none" /\ Absent(RuleOrgUnit)
       => rule.out = RuleReturn(True)

(***************************************************************************)
(* Properties of the tree-picker.                                          *)
(***************************************************************************)
\* The component's data after the i-th entry of its log.
After(i) ==
  IF i < Len(picker.log) THEN picker.log[i + 1].before ELSE Snapshot(picker)

\* C12: toggleTree flips showTree and changes nothing else (not the selected
\* unit, not the display text, and it emits no 'input' event), so two
\* toggleTree in a row leave showTree as it was.
C12_ToggleTwiceRestores ==
  \A i \in DOMAIN picker.log :
    picker.log[i].op = "toggleTree" =>
      /\ After(i) = [picker.log[i].before EXCEPT !.showTree = ~@]
      /\ i < Len(picker.log) /\ picker.log[i + 1].op = "toggleTree" =>
           After(i + 1) = picker.log[i].before

\* A collapsed picker holding a selection has been toggled twice in a row.
C12_Witness ==
  \E i \in DOMAIN picker.log :
    /\ i < Len(picker.log)
    /\ picker.log[i].op = "toggleTree" /\ picker.log[i + 1].op = "toggleTree"
    /\ ~picker.log[i].before.showTree
    /\ picker.log[i].before.selectedSuperUnit \in TreeNodes

\* C13: every selection of a node in the expanded tree, the node already
\* selected included, validates and blurs the field, emits exactly one
\* 'input' event carrying the node, and leaves the picker collapsed with the
\* node's name for display text.
C13_SelectionCollapses ==
  \A i \in DOMAIN picker.log :
    picker.log[i].op = "select" /\ picker.log[i].before.showTree =>
      /\ ~After(i).showTree
      /\ After(i).orgName = Get(picker.log[i].arg, "name")
      /\ After(i).emitted =
           Append(picker.log[i].before.emitted,
                  Emit("input", picker.log[i].arg))
      /\ After(i).validated = picker.log[i].before.validated + 1
      /\ After(i).blurred = picker.log[i].before.blurred + 1

\* C14: the picker is collapsed when created and when mounted; mounted with
\* a value it shows the value's name, mounted without one its selection and
\* display text are still null and it has emitted nothing.
C14_MountsCollapsed ==
  /\ picker.phase = "created" =>
       /\ ~picker.showTree
       /\ picker.selectedSuperUnit = Null /\ picker.orgName = Null
       /\ picker.emitted = <<>>
  /\ picker.phase = "mounted" =>
       /\ ~picker.log[1].before.showTree
       /\ ~After(1).showTree
       /\ ~Falsy(picker.value) =>
            /\ After(1).selectedSuperUnit = picker.value
            /\ After(1).orgName = Get(picker.value, "name")
       /\ Falsy(picker.value) =>
            /\ After(1).selectedSuperUnit = Null /\ After(1).orgName = Null
            /\ After(1).emitted = <<>>

\* The picker has just been mounted with a value and shows its name.
C14_Witness ==
  /\ picker.phase = "mounted" /\ Len(picker.log) = 1
  /\ picker.value \in PickerValues \ {Undefined, Null}
  /\ picker.orgName = Str("Unit 1")
  /\ ~picker.showTree

(***************************************************************************)
(* Calls in flight together.  SpecRace is the mutating methods of the      *)
(* Employee client called without waiting for one another: a request may   *)
(* be answered whenever it is outstanding, also while reactions of other   *)
(* calls are queued.  SpecRaceFair, over one method of each shape of       *)
(* chain and a Validate call, adds that queued reactions run and that      *)
(* every request is answered in the end.                                   *)
(***************************************************************************)
RaceBodies == {Obj([uuid |-> Str("uuid-1")])}

RaceErrors == {Obj([message |-> Str("Network Error")])}

\* The request of call c is outstanding.
Outstanding(c) == calls[c].pc = "pending"

Respond(c) ==
  \/ \E body \in RaceBodies : Outstanding(c) /\ RespondOk(c, body)
  \/ \E error \in RaceErrors : Outstanding(c) /\ RespondFail(c, error)

NextRace ==
  \/ \E c \in Calls, op \in Mutating, uuid \in Uuids :
       Call(c, op, Request(op, uuid))
  \/ \E c \in Calls : Respond(c)
  \/ \E c \in Calls : Step(c)

SpecRace == Init /\ [][NextRace]_vars

\* One method of each shape of chain: a wrapper, and terminate with its two
\* events in one reaction; Validate.cpr stands for the Validate client.
FairOps == {"move", "terminate"}

NextRaceFair ==
  \/ \E c \in Calls, op \in FairOps, uuid \in Uuids :
       Call(c, op, Request(op, uuid))
  \/ \E c \in Calls :
       Call(c, "cpr", cprRequest(Str("0101501234"), Arr(<<Str("org-1")>>)))
  \/ \E c \in Calls : Respond(c)
  \/ \E c \in Calls : Step(c)

SpecRaceFair ==
  /\ Init /\ [][NextRaceFair]_vars
  /\ WF_vars(\E c \in Calls : Step(c))
  /\ \A c \in Calls : WF_vars(Respond(c))

\* Where call c's 'employee-changed' event stands on the bus, and where c
\* stands among the answered calls.
HasChanged(c) ==
  \E i \in DOMAIN bus : bus[i].call = c /\ bus[i].name = "employee-changed"

ChangedAt(c) ==
  CHOOSE i \in DOMAIN bus : bus[i].call = c /\ bus[i].name = "employee-changed"

AnsweredAt(c) == CHOOSE i \in DOMAIN answered : answered[i] = c

\* C15: the 'employee-changed' events of two calls stand on the bus in the
\* order in which the two requests were answered, whatever the order in
\* which the calls were made.
C15_OrderOfResponses ==
  \A c, d \in Calls :
    c # d /\ HasChanged(c) /\ HasChanged(d) =>
      (ChangedAt(c) < ChangedAt(d) <=> AnsweredAt(c) < AnsweredAt(d))

\* Call 2, made after call 1 and answered before it, has published its
\* change event before call 1 published its own.
C15_Witness ==
  /\ HasChanged(1) /\ HasChanged(2)
  /\ ChangedAt(2) < ChangedAt(1)
  /\ answered = <<2, 1>>

\* The other order: the events stand in the order the calls were made.
C15_WitnessSameOrder ==
  /\ HasChanged(1) /\ HasChanged(2)
  /\ ChangedAt(1) < ChangedAt(2)
  /\ answered = <<1, 2>>
  /\ \E i \in DOMAIN bus : bus[i].call = 1 /\ bus[i].name = "employee-move"

C17_PendingUntilAnswered ==
  /\ [][\A c \in Calls :
          Outstanding(c) =>
            \/ calls'[c].pc = "pending"
            \/ /\ answered' = Append(answered, c)
               /\ calls'[c].http.st \in {"ok", "failed"}]_vars
  /\ [](\A c \in Calls :
          Outstanding(c) =>
            calls[c].p.st = "pending" /\ EventsOf(c) = <<>>)
  /\ \A c \in Calls : Outstanding(c) ~> Settled(c)

\* The request of call 1 is still outstanding when call 2, made after it,
\* has settled.
C17_Witness == Outstanding(1) /\ Settled(2)

(***************************************************************************)
(* The reading methods of the Employee client, the wrappers of getDetail   *)
(* among them, one call after another on the shared bus.                   *)
(***************************************************************************)
ReadOps ==
  {"getAll", "get", "history", "getDetail", "getDetailList"}
    \cup DetailWrappers

NextReads ==
  \/ \E c \in Calls, op \in ReadOps, uuid \in Uuids :
       Quiet /\ Call(c, op, Request(op, uuid))
  \/ \E c \in Calls, body \in Bodies : RespondOk(c, body)
  \/ \E c \in Calls, error \in HttpErrors : RespondFail(c, error)
  \/ \E c \in Calls : Step(c)

SpecReads == Init /\ [][NextReads]_vars

\* C18: getAll, history, getDetail, its five wrappers and getDetailList never
\* publish an event, whether the request succeeds or fails; get publishes
\* nothing but one 'organisation-changed', and nothing when its request
\* fails.
C18_ReadsPublishNothing ==
  \A c \in Calls :
    /\ calls[c].op \in ReadOps \ {"get"} => EventsOf(c) = <<>>
    /\ calls[c].op = "get" =>
         /\ NamesOf(c) \in {<<>>, <<"organisation-changed">>}
         /\ Failed(c) => EventsOf(c) = <<>>

\* A get has succeeded and published, and a wrapper of getDetail has
\* settled, on success or on failure, with the bus holding nothing else.
C18_Witness ==
  \E c, d \in Calls :
    /\ calls[c].op = "get" /\ Succeeded(c) /\ Settled(c)
    /\ NamesOf(c) = <<"organisation-changed">>
    /\ calls[d].op \in DetailWrappers /\ Settled(d)
    /\ Len(bus) = 1

====
